---- MODULE Spec2Model ----
(***************************************************************************)
(* Model of the UPPETIT tax burden calculator (Frost50104/TaxCalculator).  *)
(*                                                                         *)
(*   app/calculator.py  the pure calculation core                          *)
(*   app/schemas.py     CalcForm, the pydantic validation layer            *)
(*   app/main.py        the GET and POST handlers                          *)
(*                                                                         *)
(* Numbers.  The code computes in binary floating point.  The model        *)
(* computes the same expressions exactly: an amount of money is an integer *)
(* number of sub-units, Unit sub-units to the rouble, and an amount typed  *)
(* by the user is a whole number of roubles.  Unit is chosen so that every *)
(* product and quotient the core forms from whole-rouble inputs (4%, 33%,  *)
(* 35%, 1% * 95%, 20%, 3%, 13%, 2900 / 12) is again a whole number of      *)
(* sub-units.  A ratio (margin, profitability, the two burdens) is a       *)
(* fraction in lowest terms.  Rounding error of the floating point         *)
(* operations, NaN and infinities are outside the model.                   *)
(***************************************************************************)
EXTENDS Integers, Sequences, FiniteSets, TLC

VARIABLES
    request,    \* the HTTP request being handled: [method, form], or None
    context,    \* the template context the handler rendered, or None
    inp,        \* the Inputs record handed to the core, or None
    d,          \* the Derived record returned by derive_values, or None
    res,        \* the Results record returned by calculate_all, or None
    calls       \* how many times calculate_all has been invoked

vars == <<request, context, inp, d, res, calls>>

---------------------------------------------------------------------------
(* Representation of Optional[float] and of money.                         *)

\* Python's None.
None == [kind |-> "none"]

\* A present float: val is the amount in sub-units.
Float(x) == [kind |-> "float", val |-> x]

\* Sub-units per rouble: 3 for the twelfth of 2900, 100 * 100 for two
\* two-decimal rates applied one after the other (0.33 then 0.13,
\* 0.01 then 0.95, and the 0.20 of a base holding 0.0095 * turnover).
Unit == 3 * 100 * 100

\* n roubles as an amount.
Rub(n) == n * Unit

RECURSIVE GCD(_, _)
GCD(a, b) == IF b = 0 THEN a ELSE GCD(b, a % b)

\* x * (num / den) for a rate the code writes as a decimal (0.35 is
\* 35 / 100).  The rate is reduced first, and x is a multiple of the reduced
\* denominator wherever the core applies it (see RatesExact).
Rate(x, num, den) ==
    LET g == GCD(num, den)
    IN  (x \div (den \div g)) * (num \div g)

Abs(x) == IF x < 0 THEN -x ELSE x

\* a / b for b # 0, as a fraction in lowest terms with a positive
\* denominator.
Divide(a, b) ==
    LET g == GCD(Abs(a), Abs(b))
        s == IF b < 0 THEN -1 ELSE 1
    IN  [num |-> s * (a \div g), den |-> s * (b \div g)]

\* max() with the second argument, the floor, forgotten.
Max_first_only(a, b) == a

\* Python's max(a, b) on two floats.
Max(a, b) == IF b > a THEN b ELSE a

---------------------------------------------------------------------------
(* calculator.py: constants.                                               *)

\* ANNUAL_FIXED_INSURANCE_RUB = 2900.0
ANNUAL_FIXED_INSURANCE_RUB == Rub(2900)

\* The monthly share with the division by 12 left out.
FIXED_INSURANCE_RUB_annual == ANNUAL_FIXED_INSURANCE_RUB

\* FIXED_INSURANCE_RUB = ANNUAL_FIXED_INSURANCE_RUB / 12.0
FIXED_INSURANCE_RUB == ANNUAL_FIXED_INSURANCE_RUB \div 12

---------------------------------------------------------------------------
(* calculator.py: the core.                                                *)

\* compute_white_payroll taking any override that is present, whatever its
\* sign.
compute_white_payroll_any_override(payroll_total, white_payroll_override) ==
    IF white_payroll_override # None
    THEN white_payroll_override.val
    ELSE Rate(payroll_total, 33, 100)

\* override if present and > 0, else 0.33 * payroll_total
compute_white_payroll(payroll_total, white_payroll_override) ==
    IF white_payroll_override # None /\ white_payroll_override.val > 0
    THEN white_payroll_override.val
    ELSE Rate(payroll_total, 33, 100)

derive_values(i) ==
    [ royalty               |-> Rate(i.turnover_total, 4, 100),
      white_payroll         |-> compute_white_payroll(i.payroll_total,
                                                      i.white_payroll_override),
      aggregator_commission |-> Rate(i.turnover_aggregator, 35, 100),
      fixed_insurance       |-> FIXED_INSURANCE_RUB,
      acquiring             |-> Rate(Rate(i.turnover_total - i.turnover_aggregator,
                                          1, 100), 95, 100) ]

\* calculate_expenses with the white payroll where payroll_total belongs.
calculate_expenses_white_payroll(i, dv) ==
      i.rent
    + i.subrent
    + i.electricity
    + i.other_utilities
    + dv.white_payroll
    + dv.royalty
    + dv.aggregator_commission
    + dv.fixed_insurance
    + dv.acquiring
    + i.office_supplies
    + i.other_purchases_outside_opticom
    + i.write_offs
    + i.meal_compensation
    + i.other_write_offs
    + i.security
    + i.internet
    + i.maintenance
    + i.other_repairs
    + i.cash_service
    + i.mobile_connection
    + i.bank_services
    + i.uniform
    + i.fiscal_device
    + i.neo_service
    + i.garbage_cleaning
    + i.disinfection
    + i.promo_materials
    + i.inventory_result

calculate_expenses(i, dv) ==
      i.rent
    + i.subrent
    + i.electricity
    + i.other_utilities
    + i.payroll_total
    + dv.royalty
    + dv.aggregator_commission
    + dv.fixed_insurance
    + dv.acquiring
    + i.office_supplies
    + i.other_purchases_outside_opticom
    + i.write_offs
    + i.meal_compensation
    + i.other_write_offs
    + i.security
    + i.internet
    + i.maintenance
    + i.other_repairs
    + i.cash_service
    + i.mobile_connection
    + i.bank_services
    + i.uniform
    + i.fiscal_device
    + i.neo_service
    + i.garbage_cleaning
    + i.disinfection
    + i.promo_materials
    + i.inventory_result

\* calculate_taxable_profit unified with the expense total: the same sum,
\* payroll_total in the place of white_payroll.
calculate_taxable_profit_unified(i, dv) ==
    i.gross_profit - calculate_expenses(i, dv)

\* calculate_taxable_profit with the last term of group C, inventory_result,
\* left out.
calculate_taxable_profit_no_inventory(i, dv) ==
    calculate_taxable_profit_unified(i, dv)
    + i.payroll_total - dv.white_payroll + i.inventory_result

calculate_taxable_profit(i, dv) ==
    LET gp == i.gross_profit
        group_a == i.rent + i.subrent + i.electricity + i.other_utilities
                   + dv.royalty
        group_b ==   dv.white_payroll
                   + dv.aggregator_commission
                   + dv.fixed_insurance
                   + dv.acquiring
                   + i.office_supplies
                   + i.other_purchases_outside_opticom
                   + i.write_offs
                   + i.meal_compensation
                   + i.other_write_offs
        group_c ==   i.security
                   + i.internet
                   + i.maintenance
                   + i.other_repairs
                   + i.cash_service
                   + i.mobile_connection
                   + i.bank_services
                   + i.uniform
                   + i.fiscal_device
                   + i.neo_service
                   + i.garbage_cleaning
                   + i.disinfection
                   + i.promo_materials
                   + i.inventory_result
    IN  gp - group_a - group_b - group_c

\* The turnover guard written "!= 0" instead of "> 0".
RatioToTurnover_nonzero(x, turnover_total) ==
    IF turnover_total # 0 THEN Divide(x, turnover_total) ELSE None

\* "(x / inp.turnover_total) if inp.turnover_total > 0 else None"
RatioToTurnover(x, turnover_total) ==
    IF turnover_total > 0 THEN Divide(x, turnover_total) ELSE None

\* The profit guard written "!= 0" instead of "> 0".
RatioToProfit_nonzero(total_tax, profit_before_tax) ==
    IF profit_before_tax # 0 THEN Divide(total_tax, profit_before_tax) ELSE None

\* "(total_tax / profit_before_tax) if profit_before_tax > 0 else None"
RatioToProfit(total_tax, profit_before_tax) ==
    IF profit_before_tax > 0 THEN Divide(total_tax, profit_before_tax) ELSE None

calculate_all(i) ==
    LET dv                == derive_values(i)
        expenses          == calculate_expenses(i, dv)
        profit_before_tax == i.gross_profit - expenses
        taxable_profit    == calculate_taxable_profit(i, dv)
        ausn_tax          == Max(Rate(taxable_profit, 20, 100),
                                 Rate(i.turnover_total, 3, 100))
        ndfl_tax          == Rate(dv.white_payroll, 13, 100)
        total_tax         == ausn_tax + ndfl_tax + dv.fixed_insurance
    IN  [ inputs                 |-> i,
          derived                |-> dv,
          expenses               |-> expenses,
          profit_before_tax      |-> profit_before_tax,
          margin                 |-> RatioToTurnover(i.gross_profit, i.turnover_total),
          profitability          |-> RatioToTurnover(profit_before_tax, i.turnover_total),
          taxable_profit         |-> taxable_profit,
          ausn_tax               |-> ausn_tax,
          ndfl_tax               |-> ndfl_tax,
          total_tax              |-> total_tax,
          tax_burden_vs_turnover |-> RatioToTurnover(total_tax, i.turnover_total),
          tax_burden_vs_profit   |-> RatioToProfit(total_tax, profit_before_tax) ]

---------------------------------------------------------------------------
(* The core on its own: any Inputs record, as the unit tests build them.   *)

MaxTurnover == 2
MaxGross    == 2
MaxPayroll  == 1
MaxOverride == 1

\* The raw cost fields of Inputs other than payroll_total.
OtherCostFields ==
    { "rent", "subrent", "electricity", "other_utilities",
      "office_supplies", "other_purchases_outside_opticom", "write_offs",
      "meal_compensation", "other_write_offs", "security", "internet",
      "maintenance", "other_repairs", "cash_service", "mobile_connection",
      "bank_services", "uniform", "fiscal_device", "neo_service",
      "garbage_cleaning", "disinfection", "promo_materials",
      "inventory_result" }

\* Inputs(...): the record, with one cost field f at v and the others at 0.
Inputs(tt, gp, ta, pt, wo, f, v) ==
    [ turnover_total                  |-> tt,
      gross_profit                    |-> gp,
      turnover_aggregator             |-> ta,
      rent                            |-> IF f = "rent" THEN v ELSE 0,
      subrent                         |-> IF f = "subrent" THEN v ELSE 0,
      electricity                     |-> IF f = "electricity" THEN v ELSE 0,
      other_utilities                 |-> IF f = "other_utilities" THEN v ELSE 0,
      payroll_total                   |-> pt,
      white_payroll_override          |-> wo,
      office_supplies                 |-> IF f = "office_supplies" THEN v ELSE 0,
      other_purchases_outside_opticom |->
          IF f = "other_purchases_outside_opticom" THEN v ELSE 0,
      write_offs                      |-> IF f = "write_offs" THEN v ELSE 0,
      meal_compensation               |-> IF f = "meal_compensation" THEN v ELSE 0,
      other_write_offs                |-> IF f = "other_write_offs" THEN v ELSE 0,
      security                        |-> IF f = "security" THEN v ELSE 0,
      internet                        |-> IF f = "internet" THEN v ELSE 0,
      maintenance                     |-> IF f = "maintenance" THEN v ELSE 0,
      other_repairs                   |-> IF f = "other_repairs" THEN v ELSE 0,
      cash_service                    |-> IF f = "cash_service" THEN v ELSE 0,
      mobile_connection               |-> IF f = "mobile_connection" THEN v ELSE 0,
      bank_services                   |-> IF f = "bank_services" THEN v ELSE 0,
      uniform                         |-> IF f = "uniform" THEN v ELSE 0,
      fiscal_device                   |-> IF f = "fiscal_device" THEN v ELSE 0,
      neo_service                     |-> IF f = "neo_service" THEN v ELSE 0,
      garbage_cleaning                |-> IF f = "garbage_cleaning" THEN v ELSE 0,
      disinfection                    |-> IF f = "disinfection" THEN v ELSE 0,
      promo_materials                 |-> IF f = "promo_materials" THEN v ELSE 0,
      inventory_result                |-> IF f = "inventory_result" THEN v ELSE 0 ]

TurnoverVals   == { Rub(100 * t) : t \in -1..MaxTurnover }
AggregatorVals == { Rub(100 * t) : t \in 0..MaxTurnover }
GrossVals      == { Rub(500 * g) : g \in -1..MaxGross }
PayrollVals    == { Rub(100 * p) : p \in 0..MaxPayroll }
OverrideVals   == {None} \cup { Float(Rub(50 * o)) : o \in -1..MaxOverride }
CostVals       == { Rub(-100), 0, Rub(100) }

CoreInputs ==
    { Inputs(tt, gp, ta, pt, wo, f, v) :
        tt \in TurnoverVals, gp \in GrossVals, ta \in AggregatorVals,
        pt \in PayrollVals, wo \in OverrideVals,
        f \in OtherCostFields, v \in CostVals }

CoreInit ==
    /\ request = None
    /\ context = None
    /\ inp \in CoreInputs
    /\ d = None
    /\ res = None
    /\ calls = 0

\* d = derive_values(inp)
CallDeriveValues ==
    /\ d = None
    /\ res = None
    /\ d' = derive_values(inp)
    /\ UNCHANGED <<request, context, inp, res, calls>>

\* res = calculate_all(inp)
CallCalculateAll ==
    /\ d = None
    /\ res = None
    /\ res' = calculate_all(inp)
    /\ calls' = calls + 1
    /\ UNCHANGED <<request, context, inp, d>>

CoreNext == CallDeriveValues \/ CallCalculateAll

SpecCore == CoreInit /\ [][CoreNext]_vars

---------------------------------------------------------------------------
(* schemas.py: CalcForm.                                                   *)

\* CalcForm.model_fields.keys(), in declaration order.
FieldOrder ==
    << "turnover_total", "gross_profit", "turnover_aggregator",
       "rent", "subrent", "electricity", "other_utilities", "payroll_total",
       "white_payroll_override", "office_supplies",
       "other_purchases_outside_opticom", "write_offs", "meal_compensation",
       "other_write_offs", "security", "internet", "maintenance",
       "other_repairs", "cash_service", "mobile_connection", "bank_services",
       "uniform", "fiscal_device", "neo_service", "garbage_cleaning",
       "disinfection", "promo_materials", "inventory_result" >>

FormFields == { FieldOrder[n] : n \in 1..Len(FieldOrder) }

\* Field(..., ...): the fields with no default (the Ellipsis).
RequiredFields == { "turnover_total", "gross_profit" }

\* The fields declared without ge=0.
UnboundedFields == { "gross_profit", "subrent", "inventory_result" }

\* The fields declared Optional[float].
OptionalFields == { "white_payroll_override" }

\* The default of a field that has one: None for the override, 0 otherwise.
FieldDefault(key) == IF key \in OptionalFields THEN None ELSE Float(0)

\* A value of the payload other than a float or None.
NaN  == [kind |-> "nan"]      \* float("nan")
Str  == [kind |-> "str"]      \* a string that is not a number

\* The outcome of validating one field.
Valid(v)     == [ok |-> TRUE, value |-> v, msg |-> ""]
Invalid(msg) == [ok |-> FALSE, value |-> None, msg |-> msg]

\* pydantic's own validation of one field from its annotation and Field():
\* float or Optional[float], ge=0.
FieldType(key, pv) ==
    CASE pv.kind = "none" ->
             IF key \in OptionalFields THEN Valid(None)
             ELSE Invalid("Input should be a valid number")
      [] pv.kind = "str" ->
             Invalid("Input should be a valid number, unable to parse string as a number")
      [] pv.kind = "nan" ->
             IF key \in UnboundedFields THEN Valid(pv)
             ELSE Invalid("Input should be greater than or equal to 0")
      [] pv.kind = "float" ->
             IF key \notin UnboundedFields /\ pv.val < 0
             THEN Invalid("Input should be greater than or equal to 0")
             ELSE Valid(pv)

\* @field_validator("turnover_aggregator")
aggregator_not_negative(v) ==
    IF v.val < 0
    THEN Invalid("Value error, aggregator turnover cannot be negative")
    ELSE Valid(v)

\* @field_validator("turnover_total")
turnover_non_negative(v) ==
    IF v.val < 0
    THEN Invalid("Value error, turnover cannot be negative")
    ELSE Valid(v)

\* @field_validator("gross_profit"): float(v)
gross_profit_number(v) == Valid(v)

\* @field_validator("turnover_aggregator"), data being info.data: the
\* ValueError is raised inside the try block, whose "except Exception: pass"
\* catches it, and the validator goes on to "return v".
aggregator_not_more_than_total(v, data) ==
    LET total  == IF "turnover_total" \in DOMAIN data
                  THEN data["turnover_total"] ELSE None
        raised == total # None /\ v.val > total.val
        caught == raised
    IN  IF raised /\ ~caught
        THEN Invalid("Value error, aggregator turnover must not exceed total turnover")
        ELSE Valid(v)

\* info.data for the validators of turnover_aggregator: the fields declared
\* before it that validated.
InfoData(payload) ==
    LET tt == IF "turnover_total" \in DOMAIN payload
              THEN FieldType("turnover_total", payload["turnover_total"])
              ELSE Invalid("Field required")
        t2 == IF tt.ok THEN turnover_non_negative(tt.value) ELSE tt
        gp == IF "gross_profit" \in DOMAIN payload
              THEN FieldType("gross_profit", payload["gross_profit"])
              ELSE Invalid("Field required")
        ok == (IF t2.ok THEN {"turnover_total"} ELSE {})
              \cup (IF gp.ok THEN {"gross_profit"} ELSE {})
    IN  [k \in ok |-> IF k = "turnover_total" THEN t2.value ELSE gp.value]

\* One field of CalcForm(**payload): the default when the key is not given,
\* else the type and range check, then the field's validators in the order
\* they are declared.
ValidateField(key, payload) ==
    IF key \notin DOMAIN payload
    THEN IF key \in RequiredFields THEN Invalid("Field required")
         ELSE Valid(FieldDefault(key))
    ELSE LET t == FieldType(key, payload[key])
         IN  IF ~t.ok THEN t
             ELSE CASE key = "turnover_total" -> turnover_non_negative(t.value)
                    [] key = "gross_profit" -> gross_profit_number(t.value)
                    [] key = "turnover_aggregator" ->
                         LET n == aggregator_not_negative(t.value)
                         IN  IF ~n.ok THEN n
                             ELSE aggregator_not_more_than_total(n.value,
                                                                 InfoData(payload))
                    [] OTHER -> t

\* CalcForm(**payload): the validated fields, and ve.errors() as loc[-1] -> msg.
CalcForm(payload) ==
    LET r   == [k \in FormFields |-> ValidateField(k, payload)]
        bad == { k \in FormFields : ~r[k].ok }
    IN  [ data   |-> [k \in FormFields \ bad |-> r[k].value],
          errors |-> [k \in bad |-> r[k].msg] ]

---------------------------------------------------------------------------
(* main.py: the handlers.                                                  *)

\* What the form holds for a key.
Absent    == [kind |-> "absent"]          \* form.get(key) is None
Empty     == [kind |-> "empty"]           \* "" or blanks only
Garbage   == [kind |-> "garbage"]         \* text float() rejects
Text(x)   == [kind |-> "text", val |-> x] \* text float() reads as x

parse_optional_float(value) ==
    CASE value.kind = "absent"  -> None
      [] value.kind = "empty"   -> None
      [] value.kind = "text"    -> Float(value.val)
      [] value.kind = "garbage" -> NaN

\* The body of "for key in CalcForm.model_fields.keys()".
PayloadValue(key, raw) ==
    IF key = "white_payroll_override"
    THEN parse_optional_float(raw)
    ELSE IF raw.kind \in {"absent", "empty"}
         THEN IF key \in {"turnover_total", "gross_profit", "turnover_aggregator"}
              THEN None
              ELSE Float(0)
         ELSE IF raw.kind = "text" THEN Float(raw.val) ELSE Str

BuildPayload(form) == [key \in FormFields |-> PayloadValue(key, form[key])]

\* The amount of a validated float field.
Amount(v) == v.val

to_inputs(data) ==
    [ key \in FormFields |->
        IF key = "white_payroll_override" THEN data[key] ELSE Amount(data[key]) ]

\* @app.get("/")
index ==
    /\ request # None
    /\ request.method = "GET"
    /\ context = None
    /\ context' = [data |-> <<>>, errors |-> <<>>, results |-> None]
    /\ UNCHANGED <<request, inp, d, res, calls>>

\* What the try block of calculate leaves behind.
TryCalculate(payload) ==
    LET form_ == CalcForm(payload)
        ok    == DOMAIN form_.errors = {}
        i     == to_inputs(form_.data)
    IN  [ raised  |-> ~ok,
          errors  |-> form_.errors,
          inputs  |-> IF ok THEN i ELSE None,
          results |-> IF ok THEN calculate_all(i) ELSE None ]

\* data_out keeping only the keys the form gave a value for.
DataOut_given_only(payload) ==
    [key \in { k \in DOMAIN payload : payload[k] # None } |-> payload[key]]

\* data_out = payload.copy()
DataOut(payload) == payload

\* @app.post("/")
calculate ==
    /\ request # None
    /\ request.method = "POST"
    /\ context = None
    /\ LET payload == BuildPayload(request.form)
           t       == TryCalculate(payload)
       IN  /\ inp' = t.inputs
           /\ res' = t.results
           /\ calls' = IF t.raised THEN calls ELSE calls + 1
           /\ context' = [ data    |-> DataOut(payload),
                           errors  |-> t.errors,
                           results |-> t.results ]
    /\ UNCHANGED <<request, d>>

\* The form with the three revenue fields, the override and one cost field
\* filled as given, and nothing for the other keys.
Form(tt, gp, ta, wo, f, v) ==
    [ key \in FormFields |->
        CASE key = "turnover_total"         -> tt
          [] key = "gross_profit"           -> gp
          [] key = "turnover_aggregator"    -> ta
          [] key = "white_payroll_override" -> wo
          [] key = f                        -> v
          [] OTHER                          -> Absent ]

RawTurnover   == {Absent, Garbage} \cup { Text(x) : x \in TurnoverVals }
RawAggregator == {Absent, Empty, Garbage} \cup { Text(x) : x \in TurnoverVals }
RawGross      == {Absent, Text(Rub(-500)), Text(Rub(500))}
RawOverride   == {Absent, Empty, Garbage, Text(Rub(-50)), Text(Rub(50))}
RawCost       == {Garbage, Text(Rub(-100)), Text(Rub(100))}

Requests ==
    { [method |-> "GET"] }
    \cup { [method |-> "POST", form |-> Form(tt, gp, ta, wo, f, v)] :
             tt \in RawTurnover, gp \in RawGross, ta \in RawAggregator,
             wo \in RawOverride,
             f \in OtherCostFields \cup {"payroll_total"}, v \in RawCost }

Init ==
    /\ request \in Requests
    /\ context = None
    /\ inp = None
    /\ d = None
    /\ res = None
    /\ calls = 0

Next == index \/ calculate

Spec == Init /\ [][Next]_vars

---------------------------------------------------------------------------
(* Operators the properties are stated with.                               *)

\* The sum of the fields S of the record rec.
RECURSIVE SumFields(_, _)
SumFields(rec, S) ==
    IF S = {} THEN 0
    ELSE LET k == CHOOSE x \in S : TRUE
         IN  rec[k] + SumFields(rec, S \ {k})

\* The fraction r times the integer x, in lowest terms.
FracTimes(r, x) ==
    LET g == GCD(Abs(x), r.den)
    IN  [num |-> r.num * (x \div g), den |-> r.den \div g]

\* r is a fraction and r * b = a: r is a / b.
IsQuotient(r, a, b) ==
    /\ r # None
    /\ r.den > 0
    /\ FracTimes(r, b) = [num |-> a, den |-> 1]

\* Every rate of the core is applied to a multiple of its denominator, so
\* the integer arithmetic of the model is exact.
RatesExact ==
    res # None =>
        LET i == res.inputs
            net == i.turnover_total - i.turnover_aggregator
        IN  /\ i.turnover_total % 25 = 0                \* 0.04
            /\ i.turnover_total % 100 = 0               \* 0.03
            /\ i.turnover_aggregator % 20 = 0           \* 0.35
            /\ net % 100 = 0 /\ (net \div 100) % 20 = 0 \* 0.01 * 0.95
            /\ i.payroll_total % 100 = 0                \* 0.33
            /\ res.derived.white_payroll % 100 = 0      \* 0.13
            /\ res.taxable_profit % 5 = 0               \* 0.20
            /\ ANNUAL_FIXED_INSURANCE_RUB % 12 = 0

---------------------------------------------------------------------------
(* C2 *)

\* What C2 says white_payroll is for a payroll_total pt and an override wo.
C2_Expected(wp, pt, wo) ==
    IF wo # None /\ wo.val > 0
    THEN wp = wo.val
    ELSE 100 * wp = 33 * pt

\* C2: compute_white_payroll returns the override when it is present and
\* strictly greater than 0, and 0.33 * payroll_total when it is absent, zero
\* or negative; derive_values puts exactly this value in
\* Derived.white_payroll (and so does the Derived inside Results).
C2_WhitePayroll ==
    /\ d # None =>
         C2_Expected(d.white_payroll, inp.payroll_total,
                     inp.white_payroll_override)
    /\ res # None =>
         C2_Expected(res.derived.white_payroll, inp.payroll_total,
                     inp.white_payroll_override)

\* derive_values has run on a record with a negative override and a payroll.
C2_Witness ==
    /\ d # None
    /\ inp.white_payroll_override # None
    /\ inp.white_payroll_override.val < 0
    /\ inp.payroll_total > 0
    /\ d.white_payroll > 0

---------------------------------------------------------------------------
(* C3 *)

\* C3: ausn_tax is the greater of 0.20 * taxable_profit and
\* 0.03 * turnover_total; with turnover_total >= 0 it is never below
\* 0.03 * turnover_total and never negative, a negative taxable_profit
\* included.
C3_PrimaryTax ==
    res # None =>
        LET a  == res.ausn_tax
            tp == res.taxable_profit
            tt == res.inputs.turnover_total
        IN  /\ 5 * a >= tp
            /\ 100 * a >= 3 * tt
            /\ (5 * a = tp \/ 100 * a = 3 * tt)
            /\ tt >= 0 => (a >= 0 /\ 100 * a >= 3 * tt)

\* calculate_all has run on a record whose tax base is negative and whose
\* turnover is positive: the 3% floor is the tax.
C3_Witness ==
    /\ res # None
    /\ res.taxable_profit < 0
    /\ res.inputs.turnover_total > 0
    /\ 100 * res.ausn_tax = 3 * res.inputs.turnover_total

---------------------------------------------------------------------------
(* C4 *)

C4_GroupA_Inputs == { "rent", "subrent", "electricity", "other_utilities" }
C4_GroupA_Derived == { "royalty" }
C4_GroupB_Inputs ==
    { "office_supplies", "other_purchases_outside_opticom", "write_offs",
      "meal_compensation", "other_write_offs" }
C4_GroupB_Derived ==
    { "white_payroll", "aggregator_commission", "fixed_insurance", "acquiring" }
C4_GroupC_Inputs ==
    { "security", "internet", "maintenance", "other_repairs", "cash_service",
      "mobile_connection", "bank_services", "uniform", "fiscal_device",
      "neo_service", "garbage_cleaning", "disinfection", "promo_materials",
      "inventory_result" }

\* C4: taxable_profit is gross_profit minus group A, group B and group C
\* as the claim lists them, each term once; payroll_total is no term of it
\* (with an override in force, the tax base is the same for every payroll).
C4_TaxableProfit ==
    res # None =>
        LET i == res.inputs
            v == res.derived
        IN  /\ res.taxable_profit =
                  i.gross_profit
                  - (SumFields(i, C4_GroupA_Inputs) + SumFields(v, C4_GroupA_Derived))
                  - (SumFields(v, C4_GroupB_Derived) + SumFields(i, C4_GroupB_Inputs))
                  - SumFields(i, C4_GroupC_Inputs)
            /\ (i.white_payroll_override # None /\ i.white_payroll_override.val > 0)
                 => \A pt \in PayrollVals :
                      calculate_all([i EXCEPT !.payroll_total = pt]).taxable_profit
                        = res.taxable_profit

\* calculate_all has run on a record with a payroll, an override in force
\* and a cost of group A, B or C.
C4_Witness ==
    /\ res # None
    /\ res.inputs.payroll_total > 0
    /\ res.inputs.white_payroll_override # None
    /\ res.inputs.white_payroll_override.val > 0
    /\ \E f \in OtherCostFields : res.inputs[f] > 0
    /\ res.taxable_profit # res.profit_before_tax

---------------------------------------------------------------------------
(* C5 *)

\* The raw cost fields of an Inputs record: every field but the three
\* revenue fields and the override.
C5_RawCostFields(i) ==
    DOMAIN i \ { "turnover_total", "gross_profit", "turnover_aggregator",
                 "white_payroll_override" }

C5_DerivedInExpenses ==
    { "royalty", "aggregator_commission", "fixed_insurance", "acquiring" }

\* expenses is the sum of all the raw cost fields and the four derived
\* values, white_payroll not being one of them: the override changes neither
\* expenses nor profit_before_tax = gross_profit - expenses.
C5_SumAndIndependence ==
    LET i == res.inputs
    IN  /\ res.expenses = SumFields(i, C5_RawCostFields(i))
                          + SumFields(res.derived, C5_DerivedInExpenses)
        /\ res.profit_before_tax = i.gross_profit - res.expenses
        /\ \A wo \in OverrideVals :
             LET r2 == calculate_all([i EXCEPT !.white_payroll_override = wo])
             IN  /\ r2.expenses = res.expenses
                 /\ r2.profit_before_tax = res.profit_before_tax

\* C5 as stated: the raw cost fields summed are 23 in number.
C5_Original ==
    res # None =>
        /\ Cardinality(C5_RawCostFields(res.inputs)) = 23
        /\ C5_SumAndIndependence

\* C5, amended: expenses is the sum of all 24 raw cost fields (payroll_total
\* among them, white_payroll_override not) plus royalty,
\* aggregator_commission, fixed_insurance and acquiring; white_payroll is
\* not part of the sum, so changing only white_payroll_override changes
\* neither expenses nor profit_before_tax (= gross_profit - expenses).
C5_Expenses ==
    res # None =>
        /\ Cardinality(C5_RawCostFields(res.inputs)) = 24
        /\ C5_SumAndIndependence

\* calculate_all has run on a record with a payroll and an override in
\* force, so white_payroll differs from what the default would give.
C5_Witness ==
    /\ res # None
    /\ res.inputs.payroll_total > 0
    /\ res.inputs.white_payroll_override # None
    /\ res.inputs.white_payroll_override.val > 0
    /\ 100 * res.derived.white_payroll # 33 * res.inputs.payroll_total
    /\ res.expenses > res.derived.fixed_insurance

---------------------------------------------------------------------------
(* C6 *)

\* C6: margin, profitability and tax_burden_vs_turnover are None whenever
\* turnover_total is not strictly positive, and gross_profit /
\* turnover_total, profit_before_tax / turnover_total and total_tax /
\* turnover_total whenever it is: nothing is divided by a turnover <= 0.
C6_TurnoverRatios ==
    res # None =>
        LET tt == res.inputs.turnover_total
        IN  IF tt > 0
            THEN /\ IsQuotient(res.margin, res.inputs.gross_profit, tt)
                 /\ IsQuotient(res.profitability, res.profit_before_tax, tt)
                 /\ IsQuotient(res.tax_burden_vs_turnover, res.total_tax, tt)
            ELSE /\ res.margin = None
                 /\ res.profitability = None
                 /\ res.tax_burden_vs_turnover = None

\* calculate_all has run on a record with no turnover and a gross profit.
C6_Witness ==
    /\ res # None
    /\ res.inputs.turnover_total = 0
    /\ res.inputs.gross_profit > 0
    /\ res.margin = None
    /\ res.tax_burden_vs_turnover = None

---------------------------------------------------------------------------
(* C7 *)

---------------------------------------------------------------------------
(* C8 *)

\* C8: total_tax = ausn_tax + ndfl_tax + derived.fixed_insurance, where
\* ndfl_tax = 0.13 * derived.white_payroll and derived.fixed_insurance is
\* 2900 / 12 whatever the input.
C8_TotalTax ==
    res # None =>
        /\ res.total_tax = res.ausn_tax + res.ndfl_tax + res.derived.fixed_insurance
        /\ 100 * res.ndfl_tax = 13 * res.derived.white_payroll
        /\ 12 * res.derived.fixed_insurance = Rub(2900)

\* calculate_all has run on a record with a white payroll and a turnover.
C8_Witness ==
    /\ res # None
    /\ res.ndfl_tax > 0
    /\ res.ausn_tax > 0
    /\ res.total_tax > res.ausn_tax + res.ndfl_tax

---------------------------------------------------------------------------
(* C1, C9, C10: the POST handler.                                          *)

\* The handler has answered a POST.
Answered == context # None /\ request.method = "POST"

\* What the form holds for key is a number.
IsNumber(key) == request.form[key].kind = "text"

\* What the form holds for key breaks what CalcForm declares for it: text
\* that is no number, a number below 0 where ge=0 is declared, or nothing
\* at all for one of the three keys the handler passes on as None.
Offending(key) ==
    LET raw == request.form[key]
    IN  \/ raw.kind = "garbage"
        \/ /\ raw.kind = "text"
           /\ raw.val < 0
           /\ key \notin {"gross_profit", "subrent", "inventory_result"}
        \/ /\ raw.kind \in {"absent", "empty"}
           /\ key \in {"turnover_total", "gross_profit", "turnover_aggregator"}

\* C1: a submission whose turnover_aggregator is greater than its
\* turnover_total is rejected, a validation error is reported and
\* calculate_all is not invoked; every Inputs record that reaches the core
\* has turnover_aggregator <= turnover_total.
C1_AggregatorRejected ==
    /\ ( /\ Answered
         /\ IsNumber("turnover_total")
         /\ IsNumber("turnover_aggregator")
         /\ request.form["turnover_aggregator"].val
              > request.form["turnover_total"].val )
       => ( /\ DOMAIN context.errors # {}
            /\ context.results = None
            /\ calls = 0 )
    /\ inp # None => inp.turnover_aggregator <= inp.turnover_total

\* C9: a POST that leaves turnover_aggregator out, or sends it empty, with
\* every other field valid, passes validation and calculate_all runs with
\* turnover_aggregator = 0.
C9_AggregatorDefaultsToZero ==
    ( /\ Answered
      /\ request.form["turnover_aggregator"].kind \in {"absent", "empty"}
      /\ \A key \in FormFields \ {"turnover_aggregator"} : ~Offending(key) )
    => ( /\ DOMAIN context.errors = {}
         /\ calls = 1
         /\ context.results # None
         /\ inp # None
         /\ inp.turnover_aggregator = 0 )

\* C10: a POST ends in exactly one of two ways.  Either validation
\* succeeded, calculate_all was invoked once, results is not None and errors
\* is empty; or validation failed, calculate_all was not invoked, results is
\* None and errors has at least one entry, each keyed by an offending field.
\* Either way data is the payload as the handler prepared it from the form.
C10_OneOfTwoOutcomes ==
    Answered =>
        /\ \/ /\ inp # None
              /\ calls = 1
              /\ context.results # None
              /\ context.results = res
              /\ DOMAIN context.errors = {}
           \/ /\ inp = None
              /\ calls = 0
              /\ context.results = None
              /\ res = None
              /\ DOMAIN context.errors # {}
              /\ \A key \in DOMAIN context.errors :
                    key \in FormFields /\ Offending(key)
        /\ DOMAIN context.data = FormFields
        /\ \A key \in FormFields :
             LET raw == request.form[key]
                 out == context.data[key]
             IN  CASE raw.kind = "text" -> out = Float(raw.val)
                   [] raw.kind = "garbage" ->
                        out = IF key = "white_payroll_override" THEN NaN ELSE Str
                   [] OTHER ->
                        out = IF key \in { "turnover_total", "gross_profit",
                                           "turnover_aggregator",
                                           "white_payroll_override" }
                              THEN None ELSE Float(0)

\* A POST with text that is no number in the rent field has been answered
\* with an error for rent and no results.
C10_Witness ==
    /\ Answered
    /\ request.form["rent"].kind = "garbage"
    /\ "rent" \in DOMAIN context.errors
    /\ context.results = None
    /\ calls = 0

---------------------------------------------------------------------------
(* C11 *)

\* The two totals calculate_all forms for the record i: the expense total
\* and the tax base.
C11_Totals(i) ==
    LET dv == derive_values(i)
    IN  [ expenses       |-> calculate_expenses(i, dv),
          taxable_profit |-> calculate_taxable_profit(i, dv) ]

\* C11: the expense total and the tax-base groups differ in the payroll
\* term only: taxable_profit - profit_before_tax = payroll_total -
\* derived.white_payroll.  Every other raw cost field is counted once in
\* both (adding an amount to it adds that amount to expenses and takes it
\* from taxable_profit), and so are royalty, aggregator_commission,
\* fixed_insurance and acquiring (another turnover_total or
\* turnover_aggregator moves expenses and taxable_profit by opposite
\* amounts).
C11_GroupingsDifferInPayroll ==
    res # None =>
        LET i == res.inputs
        IN  /\ res.taxable_profit - res.profit_before_tax
                 = i.payroll_total - res.derived.white_payroll
            /\ C11_Totals(i) = [ expenses       |-> res.expenses,
                                 taxable_profit |-> res.taxable_profit ]
            /\ \A f \in OtherCostFields :
                 LET r2 == C11_Totals([i EXCEPT ![f] = @ + Rub(100)])
                 IN  /\ r2.expenses = res.expenses + Rub(100)
                     /\ r2.taxable_profit = res.taxable_profit - Rub(100)
            /\ \A tt \in TurnoverVals :
                 LET r2 == C11_Totals([i EXCEPT !.turnover_total = tt])
                 IN  r2.expenses - res.expenses
                       = res.taxable_profit - r2.taxable_profit
            /\ \A ta \in AggregatorVals :
                 LET r2 == C11_Totals([i EXCEPT !.turnover_aggregator = ta])
                 IN  r2.expenses - res.expenses
                       = res.taxable_profit - r2.taxable_profit

\* calculate_all has run on a record with a payroll and no override, a
\* turnover sold partly through aggregators and a negative inventory result.
C11_Witness ==
    /\ res # None
    /\ res.inputs.payroll_total > 0
    /\ res.inputs.white_payroll_override = None
    /\ res.inputs.turnover_aggregator > 0
    /\ res.inputs.turnover_total > res.inputs.turnover_aggregator
    /\ res.inputs.inventory_result < 0
    /\ res.taxable_profit > res.profit_before_tax

====
